---- MODULE Spec2Model ----
(***************************************************************************)
(* Model of the Snapcast media-player adapters                             *)
(* (homeassistant/components/snapcast/media_player.py) and of the Tuya     *)
(* tracker adapter (homeassistant/components/tuya/tracker.py).             *)
(*                                                                         *)
(* The vendor libraries (snapcast.control, tuya_iot) and the host          *)
(* framework are collaborators: their objects are state of the model, and  *)
(* their methods act on that state as section 6 of the specification       *)
(* describes them.                                                         *)
(***************************************************************************)
EXTENDS Integers, Sequences, FiniteSets, TLC

(***************************************************************************)
(* Bounds                                                                  *)
(***************************************************************************)
\* Clients known to the snapserver when the platform connects.
NumClients == 2
\* Devices the Tuya device manager can come to know.
NumDevices == 3

(***************************************************************************)
(* Snapcast: vendor objects and adapters                                   *)
(***************************************************************************)
VARIABLES
    hassData,    \* hass.data[DATA_KEY]: the device list of the last platform set up
    groupOf,     \* vendor: the group each client is in
    volume,      \* vendor: volume (0..100) of each group and client object
    muted,       \* vendor: mute flag of each group and client object
    stream,      \* vendor: stream assigned to each group
    latency,     \* vendor: latency of each client
    callback,    \* vendor: the single callback slot of each object
    lastEvent,   \* vendor: the last server event the library received
    lifecycle,   \* host: "new", "added" or "removed", per adapter
    scheduled,   \* host: adapters with a state refresh scheduled
    haState,     \* host: the state last written for each adapter
    pc,          \* per task: "idle", "awaiting", "done" or the exception raised
    call,        \* per task: the service call it handles
    req,         \* per task: the vendor call its invocation issued
    refreshed    \* per task: async_write_ha_state calls of its invocation

snapVars == <<hassData, groupOf, volume, muted, stream, latency, callback, lastEvent,
              lifecycle, scheduled, haState, pc, call, req, refreshed>>

(***************************************************************************)
(* Tuya: device manager, discovery bridge and tracker adapters             *)
(***************************************************************************)
VARIABLES
    deviceMap,   \* device_manager.device_map: device id -> device
    entry,       \* the config entry: "not_loaded", "loaded" or "unloaded"
    connected,   \* whether async_discover_device is connected to the signal
    signals,     \* TUYA_DISCOVERY_NEW signals sent and not yet delivered
    entities,    \* the tracker adapters added to the host, in order
    tuyaState    \* host: the state last written for each device's adapter

tuyaVars == <<deviceMap, entry, connected, signals, entities, tuyaState>>

vars == <<snapVars, tuyaVars>>

\* Python's None.
None == [kind |-> "None"]
NoCall == [method |-> "none"]

\* Two service calls can overlap on the event loop.
Tasks == {"t1", "t2"}
Clients == 1..NumClients
\* Group identifiers: the groups at connect time and one spare identifier for a
\* group the server opens when a client leaves its group.
GroupIds == 1..(NumClients + 1)
StartGroups == 1..NumClients
\* Identifier of the client and of the group of a second snapserver.
OtherServerId == 0

VolumeScale == 100
\* A float is carried in units of 1 / FloatUnits.
FloatUnits == VolumeScale * VolumeScale
Frac(v) == v * VolumeScale

\* Latencies a set_latency service call carries.
Latencies == {0, 1}

Streams == {"radio", "tv"}
SourceNames == Streams \cup {"nosuch"}

SnapcastGroupDevice(g) == [kind |-> "group", id |-> g]
SnapcastClientDevice(c) == [kind |-> "client", id |-> c]

OwnDevices ==
    {SnapcastGroupDevice(g) : g \in StartGroups} \cup
    {SnapcastClientDevice(c) : c \in Clients}
OtherDevices ==
    {SnapcastGroupDevice(OtherServerId), SnapcastClientDevice(OtherServerId)}
NoSuchEntity == [kind |-> "none", id |-> OtherServerId]
MasterIds == OwnDevices \cup OtherDevices \cup {NoSuchEntity}

\* The vendor objects of this server: every group identifier and every client.
Objects ==
    {SnapcastGroupDevice(g) : g \in GroupIds} \cup
    {SnapcastClientDevice(c) : c \in Clients}

IsClientDevice(e) == e.kind = "client"

(***************************************************************************)
(* Vendor collaborators                                                    *)
(***************************************************************************)
GroupClients(g) == {c \in Clients : groupOf[c] = g}
GroupsAvailable == {g \in GroupIds : GroupClients(g) # {}}

\* group.add_client moves the client into the group.
AddClient(g, c) == [groupOf EXCEPT ![c] = g]

\* group.remove_client: the server opens a new group for the client.
RemoveClient(g, c) ==
    IF groupOf[c] # g
    THEN groupOf
    ELSE LET free == {h \in GroupIds : h # g /\ GroupClients(h) = {}}
             h == CHOOSE x \in free : \A y \in free : x <= y
         IN  [groupOf EXCEPT ![c] = h]

(***************************************************************************)
(* Read model                                                              *)
(***************************************************************************)
\* volume_level: vendor volume / 100.
VolumeLevel(vol) == vol * (FloatUnits \div VolumeScale)

\* The state the host writes for an adapter: its properties, read through.
ReadModel(e, gOf, vol, mut, str, lat) ==
    IF IsClientDevice(e)
    THEN [source |-> str[gOf[e.id]],
          volume_level |-> VolumeLevel(vol[e]),
          is_volume_muted |-> mut[e],
          latency |-> lat[e.id]]
    ELSE [source |-> str[e.id],
          volume_level |-> VolumeLevel(vol[e]),
          is_volume_muted |-> mut[e]]

(***************************************************************************)
(* Volume conversion                                                       *)
(***************************************************************************)
\* Variant: int(), which drops the fraction.
Truncate(p) == p \div FloatUnits

\* Python round(): to the nearest integer, ties to the even one.
Round(p) ==
    LET q == p \div FloatUnits
        r == p % FloatUnits
    IN  IF 2 * r < FloatUnits THEN q
        ELSE IF 2 * r > FloatUnits THEN q + 1
        ELSE IF q % 2 = 0 THEN q ELSE q + 1

\* volume * 100 in double arithmetic: the exact product, or one unit off.
TimesScale(x) == {x * VolumeScale + d : d \in {-1, 0, 1}}

(***************************************************************************)
(* Tasks                                                                   *)
(***************************************************************************)
ServiceCall(op, e, a) == [op |-> op, entity |-> e, arg |-> a]
VendorCall(m, o, a) == [method |-> m, obj |-> o, arg |-> a]

\* Variant: a lock held across the vendor call serialises the service calls.
CanInvokeExclusive(t) == \A u \in Tasks : pc[u] # "awaiting"

\* A task takes a new service call whenever it is not suspended itself: no
\* lock is held across the vendor call of another task.
CanInvoke(t) == pc[t] # "awaiting"

\* The invocation suspends at its vendor call.
Await(t, c, vendorCall) ==
    /\ pc' = [pc EXCEPT ![t] = "awaiting"]
    /\ call' = [call EXCEPT ![t] = c]
    /\ req' = [req EXCEPT ![t] = vendorCall]
    /\ refreshed' = [refreshed EXCEPT ![t] = 0]

\* The invocation ends without a vendor call: it returns or raises.
Finish(t, c, how) ==
    /\ pc' = [pc EXCEPT ![t] = how]
    /\ call' = [call EXCEPT ![t] = c]
    /\ req' = [req EXCEPT ![t] = NoCall]
    /\ refreshed' = [refreshed EXCEPT ![t] = 0]

UnchangedVendor ==
    UNCHANGED <<groupOf, volume, muted, stream, latency, callback, lastEvent>>
UnchangedHost == UNCHANGED <<hassData, lifecycle, scheduled, haState, tuyaVars>>

(***************************************************************************)
(* Write operations of both adapters                                       *)
(***************************************************************************)
\* self._group, or self._client.group
TargetGroup(e) == IF IsClientDevice(e) THEN groupOf[e.id] ELSE e.id

\* Variant: the source is not looked up among the streams before the call.
async_select_source_unguarded(t, e, source) ==
    /\ CanInvoke(t)
    /\ Await(t, ServiceCall("select_source", e, source),
             VendorCall("set_stream", SnapcastGroupDevice(TargetGroup(e)), source))
    /\ UnchangedVendor /\ UnchangedHost

async_select_source(t, e, source) ==
    /\ CanInvoke(t)
    /\ IF source \in Streams
       THEN Await(t, ServiceCall("select_source", e, source),
                  VendorCall("set_stream", SnapcastGroupDevice(TargetGroup(e)), source))
       ELSE Finish(t, ServiceCall("select_source", e, source), "done")
    /\ UnchangedVendor /\ UnchangedHost

async_mute_volume(t, e, mute) ==
    /\ CanInvoke(t)
    /\ Await(t, ServiceCall("mute_volume", e, mute), VendorCall("set_muted", e, mute))
    /\ UnchangedVendor /\ UnchangedHost

async_set_volume_level(t, e, vol) ==
    /\ CanInvoke(t)
    /\ \E p \in TimesScale(vol) :
          Await(t, ServiceCall("set_volume_level", e, vol),
                VendorCall("set_volume", e, Round(p)))
    /\ UnchangedVendor /\ UnchangedHost

(***************************************************************************)
(* Client-only services                                                    *)
(***************************************************************************)
\* Variant: the master, not this client, is added to the master's group.
async_join_adds_master(t, e, master) ==
    LET c == ServiceCall("join", e, master)
        found == {d \in hassData : d = master}
        groups == {g \in GroupsAvailable : master.id \in GroupClients(g)}
        master_group == CHOOSE g \in groups : \A h \in groups : g <= h
    IN  IF found = {} THEN Finish(t, c, "StopIteration")
        ELSE IF ~IsClientDevice(master) THEN Finish(t, c, "TypeError")
        ELSE IF groups = {} THEN Finish(t, c, "StopIteration")
        ELSE Await(t, c, VendorCall("add_client",
                                    SnapcastGroupDevice(master_group), master.id))

\* Variant: a master found in no group leaves the client where it is.
async_join_stays(t, e, master) ==
    LET c == ServiceCall("join", e, master)
        found == {d \in hassData : d = master}
        groups == {g \in GroupsAvailable : master.id \in GroupClients(g)}
        master_group == IF groups = {} THEN groupOf[e.id]
                        ELSE CHOOSE g \in groups : \A h \in groups : g <= h
    IN  IF found = {} THEN Finish(t, c, "StopIteration")
        ELSE IF ~IsClientDevice(master) THEN Finish(t, c, "TypeError")
        ELSE Await(t, c, VendorCall("add_client",
                                    SnapcastGroupDevice(master_group), e.id))

async_join(t, e, master) ==
    LET c == ServiceCall("join", e, master)
        found == {d \in hassData : d = master}
        groups == {g \in GroupsAvailable : master.id \in GroupClients(g)}
        master_group == CHOOSE g \in groups : \A h \in groups : g <= h
    IN  IF found = {} THEN Finish(t, c, "StopIteration")
        ELSE IF ~IsClientDevice(master) THEN Finish(t, c, "TypeError")
        ELSE IF groups = {} THEN Finish(t, c, "StopIteration")
        ELSE Await(t, c, VendorCall("add_client",
                                    SnapcastGroupDevice(master_group), e.id))

handle_async_join(t, e, master) ==
    /\ CanInvoke(t)
    /\ IF ~IsClientDevice(e)
       THEN Finish(t, ServiceCall("join", e, master), "TypeError")
       ELSE async_join(t, e, master)
    /\ UnchangedVendor /\ UnchangedHost

handle_async_unjoin(t, e) ==
    /\ CanInvoke(t)
    /\ IF ~IsClientDevice(e)
       THEN Finish(t, ServiceCall("unjoin", e, None), "TypeError")
       ELSE Await(t, ServiceCall("unjoin", e, None),
                  VendorCall("remove_client",
                             SnapcastGroupDevice(groupOf[e.id]), e.id))
    /\ UnchangedVendor /\ UnchangedHost

\* Variant: the latency service without the check of the adapter's kind.
handle_set_latency_unchecked(t, e, lat) ==
    /\ CanInvoke(t)
    /\ Await(t, ServiceCall("set_latency", e, lat), VendorCall("set_latency", e, lat))
    /\ UnchangedVendor /\ UnchangedHost

handle_set_latency(t, e, lat) ==
    /\ CanInvoke(t)
    /\ IF ~IsClientDevice(e)
       THEN Finish(t, ServiceCall("set_latency", e, lat), "TypeError")
       ELSE Await(t, ServiceCall("set_latency", e, lat),
                  VendorCall("set_latency", e, lat))
    /\ UnchangedVendor /\ UnchangedHost

(***************************************************************************)
(* The vendor round trip completes: the vendor object changes, the task    *)
(* resumes and writes the adapter's state.                                 *)
(***************************************************************************)
async_write_ha_state(t, e) ==
    /\ haState' = [haState EXCEPT
                     ![e] = ReadModel(e, groupOf', volume', muted', stream', latency')]
    /\ refreshed' = [refreshed EXCEPT ![t] = refreshed[t] + 1]

VendorReturn(t) ==
    /\ pc[t] = "awaiting"
    /\ LET r == req[t] IN
         /\ groupOf' = CASE r.method = "add_client" -> AddClient(r.obj.id, r.arg)
                         [] r.method = "remove_client" -> RemoveClient(r.obj.id, r.arg)
                         [] OTHER -> groupOf
         /\ volume' = IF r.method = "set_volume"
                      THEN [volume EXCEPT ![r.obj] = r.arg] ELSE volume
         /\ muted' = IF r.method = "set_muted"
                     THEN [muted EXCEPT ![r.obj] = r.arg] ELSE muted
         /\ stream' = IF r.method = "set_stream"
                      THEN [stream EXCEPT ![r.obj.id] = r.arg] ELSE stream
         /\ latency' = IF r.method = "set_latency"
                       THEN [latency EXCEPT ![r.obj.id] = r.arg] ELSE latency
    /\ async_write_ha_state(t, call[t].entity)
    /\ pc' = [pc EXCEPT ![t] = "done"]
    /\ UNCHANGED <<call, req, callback, lastEvent, hassData, lifecycle, scheduled,
                   tuyaVars>>

(***************************************************************************)
(* Push-based refresh                                                      *)
(***************************************************************************)
\* group.set_callback / client.set_callback: one slot per vendor object.
SetCallback(o, f) == [callback EXCEPT ![o] = f]

async_added_to_hass(e) ==
    /\ lifecycle[e] = "new"
    /\ lifecycle' = [lifecycle EXCEPT ![e] = "added"]
    /\ callback' = SetCallback(e, e)
    /\ UNCHANGED <<hassData, groupOf, volume, muted, stream, latency, lastEvent,
                   scheduled, haState, pc, call, req, refreshed, tuyaVars>>

\* Variant: the callback is left in the slot on removal.
async_will_remove_keeps_callback(e) ==
    /\ lifecycle[e] = "added"
    /\ lifecycle' = [lifecycle EXCEPT ![e] = "removed"]
    /\ callback' = SetCallback(e, e)
    /\ UNCHANGED <<hassData, groupOf, volume, muted, stream, latency, lastEvent,
                   scheduled, haState, pc, call, req, refreshed, tuyaVars>>

async_will_remove_from_hass(e) ==
    /\ lifecycle[e] = "added"
    /\ lifecycle' = [lifecycle EXCEPT ![e] = "removed"]
    /\ callback' = SetCallback(e, None)
    /\ UNCHANGED <<hassData, groupOf, volume, muted, stream, latency, lastEvent,
                   scheduled, haState, pc, call, req, refreshed, tuyaVars>>

\* The vendor library receives a server event for object o and invokes the
\* callback in the object's slot, if any: schedule_update_ha_state of the
\* adapter that registered it.
VendorEvent(o) ==
    /\ lastEvent' = [obj |-> o, seq |-> 1 - lastEvent.seq]
    /\ scheduled' = IF callback[o] = None
                    THEN scheduled
                    ELSE scheduled \cup {callback[o]}
    /\ UNCHANGED <<hassData, groupOf, volume, muted, stream, latency, callback,
                   lifecycle, haState, pc, call, req, refreshed, tuyaVars>>

(***************************************************************************)
(* Tuya devices                                                            *)
(***************************************************************************)
DeviceIds == 1..NumDevices
Categories == {"tracker", "light"}

\* Python's None, as a value of device.status.get and of the state property.
Null == "<None>"

\* The data-point codes the tracker adapter probes.
BoolCodes == {"pause", "switch_charge", "finddev", "power", "power_go"}
DPCodes == BoolCodes \cup {"mode", "status", "trmode", "electricity_left"}

Absent == [type |-> "absent"]
BooleanType == [type |-> "Boolean"]
StringType == [type |-> "String"]
IntegerType == [type |-> "Integer"]
EnumType(r) == [type |-> "Enum", range |-> r]

TUYA_MODE_RETURN_HOME == "chargego"
STATE_IDLE == "idle"
STATE_PAUSED == "paused"

\* The static vendor-status to host-state mapping; a status outside it maps
\* to no value.
TUYA_STATUS_TO_HA(status) ==
    CASE status = "standby" -> STATE_IDLE
      [] status = "paused" -> STATE_PAUSED
      [] OTHER -> Null

\* Values device.status.get returns for the pause switch and the status enum.
PauseValues == {Null, "True", "False"}
StatusValues == {Null, "", "standby", "paused", "sos"}
StatusCodes == {"pause", "status"}

\* Python truthiness of a status value.
Truthy(v) == v \notin {Null, "False", ""}

\* The capability lists a device can describe itself with.
CapProfiles ==
    {[c \in DPCodes |->
         CASE c = "mode" -> m
           [] c = "status" -> st
           [] c = "trmode" -> tr
           [] c = "electricity_left" -> el
           [] OTHER -> b[c]] :
        b \in [BoolCodes -> {Absent, BooleanType}],
        m \in {Absent, StringType, EnumType({"standby"}),
               EnumType({"standby", TUYA_MODE_RETURN_HOME})},
        st \in {Absent, EnumType({"standby", "paused", "sos"})},
        tr \in {Absent, StringType, EnumType({"low", "high"})},
        el \in {Absent, StringType, IntegerType}}

\* A device exposing only the POWER and STATUS data points.
PowerAndStatus ==
    [c \in DPCodes |->
        CASE c = "power" -> BooleanType
          [] c = "status" -> EnumType({"standby", "paused", "sos"})
          [] OTHER -> Absent]

TuyaDevice(cat, caps) ==
    [category |-> cat, function |-> caps, status |-> [c \in StatusCodes |-> Null]]

\* TuyaEntity.find_dpcode: the descriptor of the data point, none if the
\* device does not have it or has it with another type than the one asked.
find_dpcode(device, dpcode, dptype) ==
    LET d == device.function[dpcode]
    IN  IF d = Absent THEN Absent
        ELSE IF dptype = "any" THEN d
        ELSE IF d.type = dptype THEN d
        ELSE Absent

Found(d) == d # Absent

\* The feature set of the base entity, before the adapter adds to it.
BaseFeatures == {}

(***************************************************************************)
(* Tuya tracker adapter                                                    *)
(***************************************************************************)
\* Variant: the start/stop features are probed with the POWER data point.
TuyaTrackerEntity_power_go_as_power(id, device) ==
    LET has(code) == Found(find_dpcode(device, code, "any"))
        mode == find_dpcode(device, "mode", "Enum")
        trmode == find_dpcode(device, "trmode", "Enum")
        battery == find_dpcode(device, "electricity_left", "Integer")
        flag(cond, features) == IF cond THEN features ELSE {}
    IN  [device_id |-> id,
         supported_features |->
             BaseFeatures
             \cup {"SEND_COMMAND"}
             \cup flag(has("pause"), {"PAUSE"})
             \cup flag(\/ has("switch_charge")
                       \/ (Found(mode) /\ TUYA_MODE_RETURN_HOME \in mode.range),
                       {"RETURN_HOME"})
             \cup flag(has("finddev"), {"FINDDEV"})
             \cup flag(has("status"), {"STATE", "STATUS"})
             \cup flag(has("power"), {"TURN_ON", "TURN_OFF"})
             \cup flag(has("power"), {"STOP", "START"})
             \cup flag(Found(trmode), {"TRMODE"})
             \cup flag(Found(battery), {"BATTERY"}),
         battery_level |-> battery]

\* TuyaTrackerEntity.__init__: the feature flags, probed once.
TuyaTrackerEntity(id, device) ==
    LET has(code) == Found(find_dpcode(device, code, "any"))
        mode == find_dpcode(device, "mode", "Enum")
        trmode == find_dpcode(device, "trmode", "Enum")
        battery == find_dpcode(device, "electricity_left", "Integer")
        flag(cond, features) == IF cond THEN features ELSE {}
    IN  [device_id |-> id,
         supported_features |->
             BaseFeatures
             \cup {"SEND_COMMAND"}
             \cup flag(has("pause"), {"PAUSE"})
             \cup flag(\/ has("switch_charge")
                       \/ (Found(mode) /\ TUYA_MODE_RETURN_HOME \in mode.range),
                       {"RETURN_HOME"})
             \cup flag(has("finddev"), {"FINDDEV"})
             \cup flag(has("status"), {"STATE", "STATUS"})
             \cup flag(has("power"), {"TURN_ON", "TURN_OFF"})
             \cup flag(has("power_go"), {"STOP", "START"})
             \cup flag(Found(trmode), {"TRMODE"})
             \cup flag(Found(battery), {"BATTERY"}),
         battery_level |-> battery]

\* Variant: a paused device reports PAUSED whatever its status.
state_paused_first(status) ==
    IF Truthy(status["pause"]) THEN STATE_PAUSED
    ELSE IF ~Truthy(status["status"]) THEN Null
    ELSE TUYA_STATUS_TO_HA(status["status"])

\* TuyaTrackerEntity.state
state(status) ==
    IF Truthy(status["pause"]) /\ ~Truthy(status["status"]) THEN STATE_PAUSED
    ELSE IF ~Truthy(status["status"]) THEN Null
    ELSE TUYA_STATUS_TO_HA(status["status"])

\* The host writes the state of the adapter at position i.
TrackerWriteState(i) ==
    /\ i \in DOMAIN entities
    /\ LET d == entities[i].device_id IN
         tuyaState' = [tuyaState EXCEPT
                         ![d] = [state |-> state(deviceMap[d].status),
                                 seq |-> 1 - tuyaState[d].seq]]
    /\ UNCHANGED <<deviceMap, entry, connected, signals, entities, snapVars>>

\* The device manager receives a status report of a device.
StatusReport(d, code, v) ==
    /\ d \in DOMAIN deviceMap
    /\ deviceMap' = [deviceMap EXCEPT ![d].status[code] = v]
    /\ UNCHANGED <<entry, connected, signals, entities, tuyaState, snapVars>>

(***************************************************************************)
(* Tuya discovery bridge                                                   *)
(***************************************************************************)
RECURSIVE Ascending(_)
Ascending(S) ==
    IF S = {} THEN <<>>
    ELSE LET m == CHOOSE x \in S : \A y \in S : x <= y
         IN  <<m>> \o Ascending(S \ {m})

\* The adapters built for the devices among device_ids that pass the test.
Adapters(device_ids, Keep(_)) ==
    LET kept == SelectSeq(device_ids, Keep)
    IN  [i \in 1..Len(kept) |-> TuyaTrackerEntity(kept[i], deviceMap[kept[i]])]

\* Variant: an adapter is built for a device of any category.
async_discover_device_any(device_ids) ==
    LET AnyCategory(d) == TRUE
    IN  IF \E i \in DOMAIN device_ids : device_ids[i] \notin DOMAIN deviceMap
        THEN entities' = entities
        ELSE entities' = entities \o Adapters(device_ids, AnyCategory)

\* async_discover_device: a KeyError for an identifier missing from the device
\* map ends the callback before any adapter is added.
async_discover_device(device_ids) ==
    LET IsTracker(d) == deviceMap[d].category = "tracker"
    IN  IF \E i \in DOMAIN device_ids : device_ids[i] \notin DOMAIN deviceMap
        THEN entities' = entities
        ELSE entities' = entities \o Adapters(device_ids, IsTracker)

async_setup_entry ==
    /\ entry = "not_loaded"
    /\ async_discover_device(Ascending(DOMAIN deviceMap))
    /\ connected' = TRUE
    /\ entry' = "loaded"
    /\ UNCHANGED <<deviceMap, signals, tuyaState, snapVars>>

\* The entry is unloaded: the callbacks registered with async_on_unload run.
async_unload ==
    /\ entry = "loaded"
    /\ connected' = FALSE
    /\ entry' = "unloaded"
    /\ UNCHANGED <<deviceMap, signals, entities, tuyaState, snapVars>>

\* The device manager learns of new devices and sends TUYA_DISCOVERY_NEW
\* with their identifiers.
DeviceAdded(new) ==
    /\ DOMAIN new # {}
    /\ DOMAIN new \cap DOMAIN deviceMap = {}
    /\ deviceMap' = deviceMap @@ new
    /\ signals' = Append(signals, Ascending(DOMAIN new))
    /\ UNCHANGED <<entry, connected, entities, tuyaState, snapVars>>

\* The dispatcher delivers the oldest signal to the connected callback.
DeliverSignal ==
    /\ signals # <<>>
    /\ signals' = Tail(signals)
    /\ IF connected
       THEN async_discover_device(Head(signals))
       ELSE entities' = entities
    /\ UNCHANGED <<deviceMap, entry, connected, tuyaState, snapVars>>

(***************************************************************************)
(* Initial states                                                          *)
(***************************************************************************)
\* async_setup_platform has connected and built the device list.
SnapcastSetup ==
    /\ hassData \in {OwnDevices, OtherDevices}
    /\ groupOf = [c \in Clients |-> c]
    /\ volume = [o \in Objects |-> VolumeScale]
    /\ muted = [o \in Objects |-> FALSE]
    /\ stream = [g \in GroupIds |-> "radio"]
    /\ latency = [c \in Clients |-> 0]
    /\ lastEvent = [obj |-> None, seq |-> 0]
    /\ scheduled = {}
    /\ haState = [e \in OwnDevices |-> None]
    /\ pc = [t \in Tasks |-> "idle"]
    /\ call = [t \in Tasks |-> ServiceCall("none", None, None)]
    /\ req = [t \in Tasks |-> NoCall]
    /\ refreshed = [t \in Tasks |-> 0]

\* The Tuya entry is not set up and the device manager knows the given devices.
TuyaSetup(devices) ==
    /\ deviceMap \in devices
    /\ entry = "not_loaded"
    /\ connected = FALSE
    /\ signals = <<>>
    /\ entities = <<>>
    /\ tuyaState = [d \in DeviceIds |-> [state |-> "unwritten", seq |-> 0]]

NoDevices == {<<>>}

\* The adapters are built and not yet added to the host.
InitSetup ==
    /\ SnapcastSetup
    /\ TuyaSetup(NoDevices)
    /\ lifecycle = [e \in OwnDevices |-> "new"]
    /\ callback = [o \in Objects |-> None]

\* Every adapter has been added to the host.
InitAdded ==
    /\ SnapcastSetup
    /\ TuyaSetup(NoDevices)
    /\ lifecycle = [e \in OwnDevices |-> "added"]
    /\ callback = [o \in Objects |-> IF o \in OwnDevices THEN o ELSE None]

(***************************************************************************)
(* Specifications                                                          *)
(***************************************************************************)
\* The client-only services, one service call at a time.
NextService ==
    \/ \E e \in OwnDevices, m \in MasterIds : handle_async_join("t1", e, m)
    \/ \E e \in OwnDevices : handle_async_unjoin("t1", e)
    \/ \E e \in OwnDevices, l \in Latencies : handle_set_latency("t1", e, l)
    \/ VendorReturn("t1")

SpecService == InitAdded /\ [][NextService]_vars

\* The write operations on a group adapter and on the adapter of a client of
\* that group, with two overlapping service calls.
WriteDevices == {d \in OwnDevices : d.id = 1}
WriteVolumes == {FloatUnits \div 2}

NextWrite ==
    \E t \in Tasks :
        \/ \E e \in WriteDevices, s \in SourceNames : async_select_source(t, e, s)
        \/ \E e \in WriteDevices, m \in BOOLEAN : async_mute_volume(t, e, m)
        \/ \E e \in WriteDevices, v \in WriteVolumes : async_set_volume_level(t, e, v)
        \/ VendorReturn(t)

SpecWrite == InitAdded /\ [][NextWrite]_vars

\* set_volume_level on a group adapter, for every volume v / 100.
NextVolume ==
    \/ \E v \in 0..VolumeScale :
          async_set_volume_level("t1", SnapcastGroupDevice(1), Frac(v))
    \/ VendorReturn("t1")

SpecVolume == InitAdded /\ [][NextVolume]_vars

\* Adapters are added and removed while the vendor library delivers events.
NextPush ==
    \/ \E e \in OwnDevices : async_added_to_hass(e)
    \/ \E e \in OwnDevices : async_will_remove_from_hass(e)
    \/ \E o \in OwnDevices : VendorEvent(o)

SpecPush == InitSetup /\ [][NextPush]_vars

\* A tracker device of any capability list gets its adapter.
InitFeatures ==
    /\ SnapcastSetup
    /\ hassData = OwnDevices
    /\ lifecycle = [e \in OwnDevices |-> "new"]
    /\ callback = [o \in Objects |-> None]
    /\ TuyaSetup({d :> TuyaDevice("tracker", caps) : d \in DeviceIds, caps \in CapProfiles})

SpecFeatures == InitFeatures /\ [][async_setup_entry]_vars

\* A tracker adapter while its device reports its pause switch and status.
InitTracker ==
    /\ SnapcastSetup
    /\ hassData = OwnDevices
    /\ lifecycle = [e \in OwnDevices |-> "new"]
    /\ callback = [o \in Objects |-> None]
    /\ TuyaSetup({d :> TuyaDevice("tracker", PowerAndStatus) : d \in DeviceIds})

NextTracker ==
    \/ async_setup_entry
    \/ \E d \in DeviceIds, v \in PauseValues : StatusReport(d, "pause", v)
    \/ \E d \in DeviceIds, v \in StatusValues : StatusReport(d, "status", v)
    \/ \E i \in 1..NumDevices : TrackerWriteState(i)

SpecTracker == InitTracker /\ [][NextTracker]_vars

\* Discovery: devices of either category, known at setup or added later.
DeviceMaps(ids) ==
    UNION {[S -> {TuyaDevice(c, PowerAndStatus) : c \in Categories}] : S \in SUBSET ids}

InitDiscovery ==
    /\ SnapcastSetup
    /\ hassData = OwnDevices
    /\ lifecycle = [e \in OwnDevices |-> "new"]
    /\ callback = [o \in Objects |-> None]
    /\ TuyaSetup(DeviceMaps(DeviceIds))

NextDiscovery ==
    \/ async_setup_entry
    \/ async_unload
    \/ \E new \in DeviceMaps(DeviceIds) : DeviceAdded(new)
    \/ DeliverSignal

SpecDiscovery == InitDiscovery /\ [][NextDiscovery]_vars

(***************************************************************************)
(* Properties of the Snapcast adapters                                     *)
(***************************************************************************)
\* Task t takes a new service call in this step.
Invoked(t) ==
    /\ pc[t] # "awaiting"
    /\ <<pc[t], call[t]>> # <<pc'[t], call'[t]>>

\* Task t's vendor call returns in this step.
Returned(t) == pc[t] = "awaiting" /\ pc'[t] = "done"

ClientOnly == {"join", "unjoin", "set_latency"}

\* C1: a join, unjoin or set_latency service call on an adapter that is not a
\* client adapter raises TypeError; it issues no vendor call (add_client,
\* remove_client, set_latency) and writes no state, so no group adapter ever
\* has a state written by these services.
C1_NonClientRejected ==
    /\ \A t \in Tasks :
          (call[t].op \in ClientOnly /\ ~IsClientDevice(call[t].entity))
              => /\ pc[t] = "TypeError"
                 /\ req[t] = NoCall
                 /\ refreshed[t] = 0
    /\ \A e \in OwnDevices : ~IsClientDevice(e) => haState[e] = None

C1_Witness ==
    \E g \in StartGroups :
        /\ call["t1"] = ServiceCall("set_latency", SnapcastGroupDevice(g), 1)
        /\ pc["t1"] = "TypeError"

\* C2: join(A, master = B), with B a registered client adapter of a client in
\* group G2, issues add_client(A) on G2; when the call completes A is a member
\* of G2 and the group A was in, if another one, no longer contains A.
C2_JoinMovesClient ==
    [][\A t \in Tasks :
          /\ ( /\ Invoked(t)
               /\ call'[t].op = "join"
               /\ IsClientDevice(call'[t].entity)
               /\ call'[t].arg \in hassData
               /\ IsClientDevice(call'[t].arg)
               /\ call'[t].arg.id \in Clients )
              => /\ pc'[t] = "awaiting"
                 /\ req'[t] = VendorCall("add_client",
                                         SnapcastGroupDevice(groupOf[call'[t].arg.id]),
                                         call'[t].entity.id)
          /\ (Returned(t) /\ call[t].op = "join")
              => LET a == call[t].entity.id
                     g1 == groupOf[a]
                     g2 == req[t].obj.id
                 IN  /\ groupOf'[a] = g2
                     /\ g1 # g2 => a \notin {c \in Clients : groupOf'[c] = g1}
                     /\ refreshed'[t] = 1
      ]_vars

C2_Witness ==
    \E a, b \in Clients :
        /\ a # b
        /\ call["t1"] = ServiceCall("join", SnapcastClientDevice(a), SnapcastClientDevice(b))
        /\ pc["t1"] = "done"
        /\ groupOf[a] = b /\ groupOf[b] = b
        /\ GroupClients(a) = {}

\* C7: a join on a client adapter whose master is not a registered entity, or
\* is a registered client adapter whose client is in no available group, ends
\* in an uncaught StopIteration; a registered master that is not a client
\* adapter ends it in a TypeError. In each case no vendor call is issued, no
\* group membership changes and no state is written.
C7_JoinLookupFailure ==
    [][\A t \in Tasks :
          (Invoked(t) /\ call'[t].op = "join" /\ IsClientDevice(call'[t].entity))
              => LET master == call'[t].arg
                     unknown == master \notin hassData
                     homeless == \A g \in GroupsAvailable : master.id \notin GroupClients(g)
                     silent == /\ req'[t] = NoCall
                               /\ refreshed'[t] = 0
                               /\ groupOf' = groupOf
                               /\ haState' = haState
                 IN  /\ (unknown \/ (IsClientDevice(master) /\ homeless))
                         => (pc'[t] = "StopIteration" /\ silent)
                     /\ (~unknown /\ ~IsClientDevice(master))
                         => (pc'[t] = "TypeError" /\ silent)
      ]_vars

C7_Witness ==
    /\ pc["t1"] = "StopIteration"
    /\ call["t1"].op = "join"
    /\ call["t1"].arg \in hassData
    /\ IsClientDevice(call["t1"].arg)

\* The vendor setter a write operation corresponds to.
Corresponds(c, r) ==
    CASE c.op = "mute_volume" -> r = VendorCall("set_muted", c.entity, c.arg)
      [] c.op = "set_volume_level" ->
            \E p \in TimesScale(c.arg) : r = VendorCall("set_volume", c.entity, Round(p))
      [] c.op = "select_source" ->
            r = VendorCall("set_stream", SnapcastGroupDevice(TargetGroup(c.entity)), c.arg)
      [] OTHER -> FALSE

\* A write operation that called its setter: no state is written while the
\* vendor call is pending, and exactly one once it has returned.
SetterThenRefresh(t) ==
    /\ Corresponds(call[t], req[t])
    /\ pc[t] = "awaiting" => refreshed[t] = 0
    /\ pc[t] = "done" => (refreshed[t] = 1 /\ haState[call[t].entity] # None)

\* C3 as stated: every mute, set-volume and select-source invocation, whatever
\* its argument, calls the vendor setter and then writes the state once.
C3_EveryWriteRefreshes ==
    \A t \in Tasks :
        pc[t] \in {"awaiting", "done"} => SetterThenRefresh(t)

\* C3, amended: every mute and set-volume invocation, and every select-source
\* invocation whose source is among the available streams, calls the vendor
\* setter and, once that call has returned, writes the adapter's state exactly
\* once; a select-source invocation with any other source calls no vendor
\* method and writes no state.
C3_WriteRefreshesKnownSource ==
    \A t \in Tasks :
        pc[t] \in {"awaiting", "done"} =>
            IF call[t].op = "select_source" /\ call[t].arg \notin Streams
            THEN pc[t] = "done" /\ req[t] = NoCall /\ refreshed[t] = 0
            ELSE SetterThenRefresh(t)

C3_Witness ==
    \E t \in Tasks, e \in WriteDevices :
        /\ pc[t] = "done"
        /\ call[t] = ServiceCall("select_source", e, "nosuch")
        /\ req[t] = NoCall
        /\ refreshed[t] = 0

Abs(n) == IF n < 0 THEN -n ELSE n

\* C6: set_volume_level(v / 100), v in 0..100, on a group adapter sets the
\* vendor volume to round((v / 100) * 100), which is within 1 of v, and the
\* volume_level then written is the vendor volume / 100; set_volume_level(0.5)
\* sets the vendor volume 50 and reads back 0.5.
C6_VolumeRoundTrip ==
    \A t \in Tasks :
        (call[t].op = "set_volume_level" /\ pc[t] \in {"awaiting", "done"}) =>
            LET e == call[t].entity
                v == call[t].arg \div VolumeScale
            IN  /\ req[t].method = "set_volume"
                /\ Abs(req[t].arg - v) <= 1
                /\ pc[t] = "done" =>
                      /\ volume[e] = req[t].arg
                      /\ haState[e].volume_level * VolumeScale = volume[e] * FloatUnits
                /\ (pc[t] = "done" /\ 2 * call[t].arg = FloatUnits) =>
                      /\ 2 * volume[e] = VolumeScale
                      /\ 2 * haState[e].volume_level = FloatUnits

C6_Witness ==
    LET e == SnapcastGroupDevice(1) IN
        /\ pc["t1"] = "done"
        /\ call["t1"] = ServiceCall("set_volume_level", e, FloatUnits \div 2)
        /\ volume[e] = VolumeScale \div 2
        /\ haState[e].volume_level = FloatUnits \div 2

\* C9: a vendor event on the object an added adapter wraps schedules a state
\* refresh for that adapter and for no other; once an adapter is removed its
\* object's callback slot is empty, and an event on the object schedules
\* nothing.
C9_PushRefresh ==
    [][/\ \A o \in OwnDevices :
             (lastEvent' # lastEvent /\ lastEvent'.obj = o) =>
                 scheduled' = IF lifecycle[o] = "added"
                              THEN scheduled \cup {o}
                              ELSE scheduled
       /\ \A e \in OwnDevices :
             /\ lifecycle'[e] = "added" => callback'[e] = e
             /\ lifecycle'[e] = "removed" => callback'[e] = None
      ]_vars

C9_Witness ==
    \E e, other \in OwnDevices :
        /\ lifecycle[e] = "removed"
        /\ lastEvent.obj = e
        /\ e \notin scheduled
        /\ lifecycle[other] = "added"
        /\ scheduled = {other}

\* C10: no write operation excludes another. While one task is suspended at
\* its vendor call, any other task can issue a vendor call on the same
\* adapter, and of two suspended tasks either can return first; the state a
\* task writes when it returns is read from the vendor objects as they then
\* are, whatever task wrote them.
C10_WritesOverlap ==
    [][\A t1, t2 \in Tasks :
          (t1 # t2 /\ pc[t1] = "awaiting") =>
              LET e == call[t1].entity IN
                  /\ pc[t2] # "awaiting" =>
                        /\ ENABLED async_mute_volume(t2, e, TRUE)
                        /\ ENABLED async_set_volume_level(t2, e, FloatUnits \div 2)
                  /\ pc[t2] = "awaiting" =>
                        (ENABLED VendorReturn(t1) /\ ENABLED VendorReturn(t2))
                  /\ Returned(t1) =>
                        haState'[e] = ReadModel(e, groupOf', volume', muted',
                                                stream', latency')
      ]_vars

C10_Witness ==
    \E e \in WriteDevices :
        /\ pc["t1"] = "awaiting"
        /\ call["t1"] = ServiceCall("set_volume_level", e, FloatUnits \div 2)
        /\ pc["t2"] = "awaiting"
        /\ call["t2"] = ServiceCall("mute_volume", e, TRUE)

(***************************************************************************)
(* Properties of the Tuya tracker adapter and discovery bridge             *)
(***************************************************************************)
\* The host writes the state of device d's adapter in this step.
StateWritten(d) == tuyaState'[d] # tuyaState[d]

\* C4 as stated: the state written is PAUSED if the pause switch is on and the
\* status is absent, the mapping of the status if the pause switch is on and a
\* status is present, and no value if the pause switch is off and the status is
\* absent.
C4_StateByPresence ==
    [][\A d \in DeviceIds :
          StateWritten(d) =>
              LET paused == deviceMap[d].status["pause"] = "True"
                  status == deviceMap[d].status["status"]
                  written == tuyaState'[d].state
              IN  /\ (paused /\ status = Null) => written = STATE_PAUSED
                  /\ (paused /\ status # Null) => written = TUYA_STATUS_TO_HA(status)
                  /\ (~paused /\ status = Null) => written = Null
      ]_vars

\* C4, amended: the state written is PAUSED if the pause switch is on and the
\* status is absent or empty, the mapping of the status if the pause switch is
\* on and the status is present and not empty, and no value if the pause
\* switch is off and the status is absent or empty.
C4_StateByTruthiness ==
    [][\A d \in DeviceIds :
          StateWritten(d) =>
              LET paused == deviceMap[d].status["pause"] = "True"
                  status == deviceMap[d].status["status"]
                  written == tuyaState'[d].state
              IN  /\ (paused /\ status \in {Null, ""}) => written = STATE_PAUSED
                  /\ (paused /\ status \notin {Null, ""})
                        => written = TUYA_STATUS_TO_HA(status)
                  /\ (~paused /\ status \in {Null, ""}) => written = Null
      ]_vars

C4_Witness ==
    \E d \in DOMAIN deviceMap :
        /\ deviceMap[d].status["pause"] = "True"
        /\ deviceMap[d].status["status"] = ""
        /\ tuyaState[d].state = STATE_PAUSED

PowerAndStatusFeatures == {"TURN_ON", "TURN_OFF", "STATE", "STATUS"}

\* C5 as stated: the adapter of a device exposing only the POWER and STATUS
\* data points supports exactly TURN_ON, TURN_OFF, STATE and STATUS.
C5_ExactlyFourFeatures ==
    \A i \in DOMAIN entities :
        deviceMap[entities[i].device_id].function = PowerAndStatus
            => entities[i].supported_features = PowerAndStatusFeatures

\* C5, amended: the adapter of a device exposing only the POWER and STATUS
\* data points supports exactly SEND_COMMAND, TURN_ON, TURN_OFF, STATE and
\* STATUS: none of PAUSE, BATTERY, FINDDEV, and no other feature.
C5_FourFeaturesAndSendCommand ==
    \A i \in DOMAIN entities :
        deviceMap[entities[i].device_id].function = PowerAndStatus
            => entities[i].supported_features
                   = PowerAndStatusFeatures \cup {"SEND_COMMAND"}

C5_Witness ==
    \E i \in DOMAIN entities :
        /\ deviceMap[entities[i].device_id].function = PowerAndStatus
        /\ "SEND_COMMAND" \in entities[i].supported_features
        /\ entities[i].battery_level = Absent

\* The devices the adapters at positions S of a sequence of adapters wrap.
DevicesOf(seq, S) == {seq[i].device_id : i \in S}
Trackers(ids) == {d \in ids \cap DOMAIN deviceMap : deviceMap[d].category = "tracker"}
Range(f) == {f[i] : i \in DOMAIN f}

\* C8: every adapter wraps a device of category "tracker"; setting the entry up
\* adds an adapter for each tracker then in the device map; a signal delivered
\* while the entry is loaded adds an adapter for each tracker it names; a
\* signal delivered when the entry is not loaded, or unloaded, adds none.
C8_DiscoveryBridge ==
    [][LET added == DevicesOf(entities', (Len(entities) + 1)..Len(entities'))
       IN  /\ SubSeq(entities', 1, Len(entities)) = entities
           /\ \A i \in DOMAIN entities' :
                 deviceMap'[entities'[i].device_id].category = "tracker"
           /\ (entry = "not_loaded" /\ entry' = "loaded")
                 => added = Trackers(DOMAIN deviceMap)
           /\ (Len(signals') < Len(signals))
                 => added = IF entry = "loaded"
                            THEN Trackers(Range(Head(signals)))
                            ELSE {}
           /\ connected' = (entry' = "loaded")
      ]_vars

C8_Witness ==
    \E d, e \in DOMAIN deviceMap :
        /\ entry = "unloaded"
        /\ signals = <<>>
        /\ deviceMap[d].category = "tracker"
        /\ deviceMap[e].category = "tracker"
        /\ d \in DevicesOf(entities, DOMAIN entities)
        /\ e \notin DevicesOf(entities, DOMAIN entities)

====
